---- MODULE Spec2Model ----
(***************************************************************************)
(* Mesh extraction, face geometry and bounding-shell construction of the   *)
(* STEP processing server (src/occserver.py, src/boundingBox.py).          *)
(*                                                                         *)
(* Numbers.  The code computes in floating point.  The model draws its     *)
(* coordinates from integer lattice points of one plane, for which every   *)
(* cross product has an integer length, so that sqrt and the divisions of  *)
(* the code are exact on the inputs used.  Areas are kept in half units    *)
(* (the code's `magnitude * 0.5`), box coordinates in half units too (the  *)
(* code's `(min + max) / 2` and `length / 2`).                             *)
(***************************************************************************)
EXTENDS Integers, Sequences, FiniteSets, TLC

VARIABLES
    \* extract_mesh_data (src/occserver.py:78-204)
    pc,             \* position in extract_mesh_data
    vertices,       \* global vertex list
    triangles,      \* global triangle list
    faces_data,     \* list of face_info records
    vertex_count,   \* running vertex offset
    face_index,     \* running face counter
    explored,       \* what the explorer and the adapter have handed out so far
    call,           \* 1 in the first call of extract_mesh_data on a shape, 2 in the second
    shape,          \* in the second call: the faces of the shape, as the first call met them
    first,          \* in the second call: what the first call returned
    \* face geometry analysis on its own (src/occserver.py:206-268)
    an_pc, an_vertices, an_triangles, an_area, an_normal,
    an_normals,     \* the vertex normals of calculate_normals (285-323)
    \* create_bounding_box_stl (src/boundingBox.py:3-49)
    sh_pc, bbox, wall_thickness, dims, outer_box, inner_box, hollow_box,
    exported, sh_error,
    \* /process-step (src/occserver.py:719-787, src/step_server.py:114-187)
    clock,          \* int(time.time())
    upload_folder,  \* the files of UPLOAD_FOLDER
    rq_pc,          \* position of each request in process_step
    rq_upload,      \* request.files['stepFile'] of each request
    rq_path,        \* file_path of each request
    rq_read,        \* whose upload process_step_file found at file_path
    rq_meshes,      \* what process_step_file returned to each request
    rq_response,    \* the answer of each request
    \* the export of the two artifacts (spec.md section 4.7)
    ex_pc,          \* position of the export
    ex_full,        \* the full-model file: "pending", "written" or "failed"
    ex_shell,       \* the shell file: "pending", "written" or "failed"
    ex_report,      \* success per artifact, as reported
    \* the STL store (src/occserver.py:378-576)
    stl_storage,    \* the directories and files under STL_STORAGE_FOLDER
    st_now,         \* the clock read by the file system and datetime.now()
    st_before,      \* stl_storage when the last rejected /api/store-stl request came in
    st_response,    \* the answer to the last /api/store-stl request
    st_answer       \* the answer to the last query

callVars  == <<call, shape, first>>
meshVars  == <<pc, vertices, triangles, faces_data, vertex_count, face_index, explored,
               callVars>>
geomVars  == <<an_pc, an_vertices, an_triangles, an_area, an_normal, an_normals>>
shellVars == <<sh_pc, bbox, wall_thickness, dims, outer_box, inner_box, hollow_box,
               exported, sh_error>>
serverVars == <<clock, upload_folder, rq_pc, rq_upload, rq_path, rq_read, rq_meshes,
                rq_response>>
exportVars == <<ex_pc, ex_full, ex_shell, ex_report>>
storeVars  == <<stl_storage, st_now, st_before, st_response, st_answer>>
vars      == <<meshVars, geomVars, shellVars, serverVars, exportVars, storeVars>>

\* what the actions of one part leave alone
exceptMesh   == <<geomVars, shellVars, serverVars, exportVars, storeVars>>
exceptGeom   == <<meshVars, shellVars, serverVars, exportVars, storeVars>>
exceptShell  == <<meshVars, geomVars, serverVars, exportVars, storeVars>>
exceptServer == <<meshVars, geomVars, shellVars, exportVars, storeVars>>
exceptExport == <<meshVars, geomVars, shellVars, serverVars, storeVars>>
exceptStore  == <<meshVars, geomVars, shellVars, serverVars, exportVars>>

----------------------------------------------------------------------------
(* Bounds of the model *)

\* faces the explorer hands out for one shape
MaxFaces == 2
\* entries of the global vertex list
MaxVertices == 3
\* entries of the global triangle list
MaxTriangles == 2

----------------------------------------------------------------------------
(* Small helpers *)

RECURSIVE SumSeq(_)
SumSeq(s) == IF s = <<>> THEN 0 ELSE s[1] + SumSeq(Tail(s))

Range(s) == {s[i] : i \in 1..Len(s)}

\* the entries of a list of triples, triple after triple
\* ([x for t in ts for x in t])
Flatten3(ts) == [i \in 1..(3 * Len(ts)) |-> ts[((i - 1) \div 3) + 1][((i - 1) % 3) + 1]]

\* x ** 0.5 / math.sqrt on the perfect squares the model's inputs produce
Sqrt(x) == CHOOSE r \in 0..x : r * r = x

Min2(a, b) == IF a < b THEN a ELSE b
Max2(a, b) == IF a > b THEN a ELSE b

----------------------------------------------------------------------------
(* Vectors *)

\* [b[0] - a[0], b[1] - a[1], b[2] - a[2]]
Edge(a, b) == <<b[1] - a[1], b[2] - a[2], b[3] - a[3]>>

\* the cross product written out at occserver.py:219-223, 256-260, 301-305
Cross(e1, e2) ==
    << e1[2] * e2[3] - e1[3] * e2[2],
       e1[3] * e2[1] - e1[1] * e2[3],
       e1[1] * e2[2] - e1[2] * e2[1] >>

\* (c[0]**2 + c[1]**2 + c[2]**2)**0.5
Magnitude(c) == Sqrt(c[1] * c[1] + c[2] * c[2] + c[3] * c[3])

\* [n[0]/length, n[1]/length, n[2]/length]
Scaled(n, length) == <<n[1] \div length, n[2] \div length, n[3] \div length>>

\* the fallback normal [0.0, 0.0, 1.0]
UnitZ == <<0, 0, 1>>

----------------------------------------------------------------------------
(* Face geometry: calculate_face_* of src/occserver.py.  Python's          *)
(* vertices[0], vertices[1], vertices[2] are vs[1], vs[2], vs[3] here.     *)

\* One pass of the loop `for triangle in triangles` (occserver.py:210-226):
\* whatever the triangle, the contribution is taken from vertices[0..2].
\* The result is in half units: magnitude * 0.5 is `magnitude` halves.
RECURSIVE AreaLoop(_, _)
AreaLoop(vs, ts) ==
    IF ts = <<>> THEN 0
    ELSE (IF Len(vs) >= 3
            THEN Magnitude(Cross(Edge(vs[1], vs[2]), Edge(vs[1], vs[3])))
            ELSE 0)
         + AreaLoop(vs, Tail(ts))

calculate_face_area_accurate(vs, ts) == AreaLoop(vs, ts)

RECURSIVE VecSum(_)
VecSum(vs) ==
    IF vs = <<>> THEN <<0, 0, 0>>
    ELSE LET r == VecSum(Tail(vs))
         IN  <<vs[1][1] + r[1], vs[1][2] + r[2], vs[1][3] + r[3]>>

\* The mean is kept as the exact quotient sum / count.
calculate_face_center(vs) ==
    IF vs = <<>> THEN [sum |-> <<0, 0, 0>>, count |-> 1]
    ELSE [sum |-> VecSum(vs), count |-> Len(vs)]

calculate_face_normal_accurate(vs, ts) ==
    IF Len(vs) < 3 THEN UnitZ
    ELSE LET normal == Cross(Edge(vs[1], vs[2]), Edge(vs[1], vs[3]))
             length == Magnitude(normal)
         IN  IF length > 0 THEN Scaled(normal, length) ELSE UnitZ

RECURSIVE MinCoord(_, _)
MinCoord(vs, k) ==
    IF Len(vs) = 1 THEN vs[1][k] ELSE Min2(vs[1][k], MinCoord(Tail(vs), k))

RECURSIVE MaxCoord(_, _)
MaxCoord(vs, k) ==
    IF Len(vs) = 1 THEN vs[1][k] ELSE Max2(vs[1][k], MaxCoord(Tail(vs), k))

calculate_face_bounds(vs) ==
    IF vs = <<>> THEN [min |-> <<0, 0, 0>>, max |-> <<0, 0, 0>>]
    ELSE [min |-> <<MinCoord(vs, 1), MinCoord(vs, 2), MinCoord(vs, 3)>>,
          max |-> <<MaxCoord(vs, 1), MaxCoord(vs, 2), MaxCoord(vs, 3)>>]

----------------------------------------------------------------------------
(* calculate_normals (occserver.py:285-323).  Python's vertices[i] is       *)
(* vs[i + 1] here.                                                         *)

\* the cross product of a triangle's edges left as it is, not normalized
TriangleRaw(vs, tri) ==
    Cross(Edge(vs[tri[1] + 1], vs[tri[2] + 1]), Edge(vs[tri[1] + 1], vs[tri[3] + 1]))

\* 292-309: the normal of one triangle, normalized `if length > 0`, else left
\* as the zero vector it then is
TriangleUnit(vs, tri) ==
    LET normal == Cross(Edge(vs[tri[1] + 1], vs[tri[2] + 1]),
                        Edge(vs[tri[1] + 1], vs[tri[3] + 1]))
        length == Magnitude(normal)
    IN  IF length > 0 THEN Scaled(normal, length) ELSE normal

\* 312-314: normals[idx] += normal
AddAt(normals, idx, n) ==
    [normals EXCEPT ![idx + 1] = <<@[1] + n[1], @[2] + n[2], @[3] + n[3]>>]

\* 311-314: `for idx in triangle`
AddToCorners(normals, tri, n) ==
    AddAt(AddAt(AddAt(normals, tri[1], n), tri[2], n), tri[3], n)

\* 291-314: `for triangle in triangles`
RECURSIVE Accumulate(_, _, _)
Accumulate(normals, vs, ts) ==
    IF ts = <<>> THEN normals
    ELSE Accumulate(AddToCorners(normals, Head(ts), TriangleUnit(vs, Head(ts))),
                    vs, Tail(ts))

\* 316-321
NormalizeAll(normals) ==
    [i \in 1..Len(normals) |->
        LET length == Magnitude(normals[i])
        IN  IF length > 0 THEN Scaled(normals[i], length) ELSE UnitZ]

calculate_normals(vs, ts) ==
    NormalizeAll(Accumulate([i \in 1..Len(vs) |-> <<0, 0, 0>>], vs, ts))

----------------------------------------------------------------------------
(* What the triangulation adapter hands out for one face                   *)
(* (BRep_Tool.Triangulation, occserver.py:97-99).                          *)
(*   present     : the `if triangulation:` test at line 101                *)
(*   nodes       : Node(1..NbNodes), before the location is applied        *)
(*   node_raises : 0, or the 1-based node whose read raises (113-124)      *)
(*   tris        : Triangle(1..NbTriangles).Get(), 1-based node indices,   *)
(*                 which the code does not validate                        *)
(*   tri_raises  : 0, or the 1-based triangle whose read raises (134-152)  *)
(*   trsf        : location.Transformation(), here a translation           *)

\* The i-th node of a face before its location is applied: lattice points
\* of the plane z = 0, the first three not collinear.
NodeAt(i) == <<(i - 1) \div 2, (i - 1) % 2, 0>>

NodeSeq(n) == [i \in 1..n |-> NodeAt(i)]

\* The location of the k-th face of the shapes explored: the identity or a
\* shift by one along y, in turn, as for faces lying side by side.  The
\* second node of an even face and the first node of the odd face after it
\* then hold the same coordinates (0, 1, 0).
LocationOf(k) == <<0, k % 2, 0>>

\* Node triples a triangle of a face with n nodes may report: one within
\* 1..n in the order of the nodes (a proper triangle once n >= 3, a
\* degenerate one below), one within 1..n that starts at the second node and
\* leaves the nodes after it out, and one with an index above and an index
\* below that range.
TriSet(n) == {<<1, Min2(2, n), Min2(3, n)>>, <<Min2(2, n), 1, 1>>, <<n + 1, 1, 0>>}

\* The triangle lists of at most nt triangles of a face with n nodes.  A face
\* without nodes has no triangles.
TriSeqs(n, nt) ==
    IF n = 0 THEN {<<>>}
    ELSE UNION {[1..m -> TriSet(n)] : m \in 0..nt}

NoTriangulation ==
    [present |-> FALSE, nodes |-> <<>>, node_raises |-> 0,
     tris |-> <<>>, tri_raises |-> 0, trsf |-> <<0, 0, 0>>]

Triangulation(ns, nr, ts, tr, loc) ==
    [present |-> TRUE, nodes |-> ns, node_raises |-> nr,
     tris |-> ts, tri_raises |-> tr, trsf |-> loc]

\* Faces read to the end, of at most nv nodes and nt triangles.
SoundFaces(loc, nv, nt) ==
    UNION {{Triangulation(NodeSeq(n), 0, ts, 0, loc) : ts \in TriSeqs(n, nt)} :
               n \in 0..nv}

\* Faces whose node read raises after at most nv nodes were read.  What is
\* never read is left out: the node that raises is the last one, and the face
\* has no triangles.
NodeRaiseFaces(loc, nv) ==
    {Triangulation(NodeSeq(n), n, <<>>, 0, loc) : n \in 1..(nv + 1)}

\* Faces whose triangle read raises after at most nt triangles were read:
\* the triangle that raises is the last one.
TriRaiseFaces(loc, nv, nt) ==
    UNION {{Triangulation(NodeSeq(n), 0, Append(ts, <<1, 2, 3>>), Len(ts) + 1, loc) :
                ts \in TriSeqs(n, nt)} : n \in 1..nv}

----------------------------------------------------------------------------
(* extract_mesh_data, one pass of `while face_explorer.More()`             *)

\* pnt.Transform(transform)
Transform(p, trsf) == <<p[1] + trsf[1], p[2] + trsf[2], p[3] + trsf[3]>>

\* nodes appended by the loop at 115-122 before it ends or raises
NodesRead(t) == IF t.node_raises = 0 THEN Len(t.nodes) ELSE t.node_raises - 1

\* face_vertices, and what the same loop appended to `vertices`
ReadVertices(t) == [i \in 1..NodesRead(t) |-> Transform(t.nodes[i], t.trsf)]

\* face_vertex_indices: vertex_count + i
ReadVertexIndices(t, vc) == [i \in 1..NodesRead(t) |-> vc + (i - 1)]

\* triangles appended by the loop at 135-150 before it ends or raises
TrisRead(t) == IF t.tri_raises = 0 THEN Len(t.tris) ELSE t.tri_raises - 1

\* global_indices with the second and third node exchanged
GlobalIndicesSwapped(tri, vc) == <<vc + tri[1] - 1, vc + tri[3] - 1, vc + tri[2] - 1>>

\* global_indices at 140-144
GlobalIndices(tri, vc) == <<vc + tri[1] - 1, vc + tri[2] - 1, vc + tri[3] - 1>>

\* face_triangles, and what the same loop appended to `triangles`
ReadTriangles(t, vc) == [i \in 1..TrisRead(t) |-> GlobalIndices(t.tris[i], vc)]

\* face_triangle_indices: len(triangles) - 1 after each append
ReadTriangleIndices(t, ntri) == [i \in 1..TrisRead(t) |-> ntri + (i - 1)]

\* f'face_{face_index}'
FaceId(k) == "face_" \o ToString(k)

\* The locals of extract_mesh_data as one record.
Mesh(vs, ts, fd, vc, fi) ==
    [vertices |-> vs, triangles |-> ts, faces_data |-> fd,
     vertex_count |-> vc, face_index |-> fi]

\* the counters set anew, the three lists kept from the call before
LocalsWithListsKept == Mesh(vertices, triangles, faces_data, 0, 0)

\* the locals as set at 80-83 and 94
EmptyMesh == Mesh(<<>>, <<>>, <<>>, 0, 0)

\* face_info at 165-193
FaceInfo(m, t) ==
    LET face_vertices  == ReadVertices(t)
        face_triangles == ReadTriangles(t, m.vertex_count)
    IN  [id                 |-> FaceId(m.face_index),
         faceIndex          |-> m.face_index,
         meshIndex          |-> 0,
         triangleIndices    |-> ReadTriangleIndices(t, Len(m.triangles)),
         vertexIndices      |-> ReadVertexIndices(t, m.vertex_count),
         area               |-> calculate_face_area_accurate(face_vertices, face_triangles),
         center             |-> calculate_face_center(face_vertices),
         normal             |-> calculate_face_normal_accurate(face_vertices, face_triangles),
         bounds             |-> calculate_face_bounds(face_vertices),
         vertexCount        |-> Len(face_vertices),
         triangleCount      |-> Len(face_triangles),
         vertices           |-> face_vertices,
         faceType           |-> "unknown",
         startVertexIndex   |-> m.vertex_count,
         startTriangleIndex |-> Len(m.triangles)]

\* a skip that keeps the face counter where it is
SkipFaceKeepsCounter(m) == m

\* `if triangulation:` is false: lines 201-202 only
SkipFace(m) == [m EXCEPT !.face_index = @ + 1]

\* the handler at 124-128: the nodes read so far stay in `vertices`
AbandonInVertices(m, t) ==
    [m EXCEPT !.vertices = @ \o ReadVertices(t),
              !.face_index = @ + 1]

\* the handler at 152-156: all nodes and the triangles read so far stay
AbandonInTriangles(m, t) ==
    [m EXCEPT !.vertices = @ \o ReadVertices(t),
              !.triangles = @ \o ReadTriangles(t, m.vertex_count),
              !.face_index = @ + 1]

\* the pass that reaches 195-202
AppendFace(m, t) ==
    [m EXCEPT !.vertices = @ \o ReadVertices(t),
              !.triangles = @ \o ReadTriangles(t, m.vertex_count),
              !.faces_data = Append(@, FaceInfo(m, t)),
              !.vertex_count = @ + Len(ReadVertices(t)),
              !.face_index = @ + 1]

\* one pass of the loop body, 97-202
ProcessFace(m, t) ==
    IF ~t.present THEN SkipFace(m)
    ELSE IF t.node_raises > 0 THEN AbandonInVertices(m, t)
    ELSE IF t.tri_raises > 0 THEN AbandonInTriangles(m, t)
    ELSE AppendFace(m, t)

\* the loop 96-202 over the faces of a shape
RECURSIVE ExtractLoop(_, _)
ExtractLoop(m, faces) ==
    IF faces = <<>> THEN m
    ELSE ExtractLoop(ProcessFace(m, Head(faces)), Tail(faces))

----------------------------------------------------------------------------
(* extract_mesh_data as a state machine *)

Current == Mesh(vertices, triangles, faces_data, vertex_count, face_index)

Becomes(m) ==
    /\ vertices' = m.vertices
    /\ triangles' = m.triangles
    /\ faces_data' = m.faces_data
    /\ vertex_count' = m.vertex_count
    /\ face_index' = m.face_index

\* face_explorer.More(): in the first call while the model has room for a
\* face, in the second call while the shape has a face left
More == pc = "explore" /\ face_index < (IF call = 1 THEN MaxFaces ELSE Len(shape))

\* The first call meets the faces of some shape.  The second call is given
\* the same shape, meshed with the same tolerances: the explorer and the
\* adapter hand out face by face what they handed out before.
Handed(t) == IF call = 1 THEN TRUE ELSE t = shape[face_index + 1]

Offered(S) ==
    IF call = 1 THEN S
    ELSE IF face_index < Len(shape) THEN {shape[face_index + 1]} ELSE {}

Fits(t) ==
    IF call = 2 THEN TRUE
    ELSE /\ Len(vertices) + NodesRead(t) <= MaxVertices
         /\ Len(triangles) + TrisRead(t) <= MaxTriangles

\* the room left in the lists of the model
RoomV == MaxVertices - Len(vertices)
RoomT == MaxTriangles - Len(triangles)

\* 86-90: mesh.Perform() and IsDone() true
MeshDone ==
    /\ pc = "mesh"
    /\ pc' = "explore"
    /\ UNCHANGED <<vertices, triangles, faces_data, vertex_count, face_index, explored>>
    /\ UNCHANGED <<callVars, exceptMesh>>

\* 89-90: raise Exception("Meshing failed").  A shape that was meshed in the
\* first call is meshed in the second.
MeshFailed ==
    /\ pc = "mesh"
    /\ call = 1
    /\ pc' = "raised"
    /\ UNCHANGED <<vertices, triangles, faces_data, vertex_count, face_index, explored>>
    /\ UNCHANGED <<callVars, exceptMesh>>

\* a face without a triangulation
FaceSkipped ==
    /\ More
    /\ Handed(NoTriangulation)
    /\ Becomes(SkipFace(Current))
    /\ explored' = Append(explored, NoTriangulation)
    /\ UNCHANGED pc
    /\ UNCHANGED <<callVars, exceptMesh>>

\* a face one of whose nodes raises
FaceVerticesRaise(t) ==
    /\ More
    /\ Handed(t)
    /\ t.present /\ t.node_raises > 0
    /\ Fits(t)
    /\ Becomes(AbandonInVertices(Current, t))
    /\ explored' = Append(explored, t)
    /\ UNCHANGED pc
    /\ UNCHANGED <<callVars, exceptMesh>>

\* a face one of whose triangles raises
FaceTrianglesRaise(t) ==
    /\ More
    /\ Handed(t)
    /\ t.present /\ t.node_raises = 0 /\ t.tri_raises > 0
    /\ Fits(t)
    /\ Becomes(AbandonInTriangles(Current, t))
    /\ explored' = Append(explored, t)
    /\ UNCHANGED pc
    /\ UNCHANGED <<callVars, exceptMesh>>

\* a face read to the end
FaceExtracted(t) ==
    /\ More
    /\ Handed(t)
    /\ t.present /\ t.node_raises = 0 /\ t.tri_raises = 0
    /\ Fits(t)
    /\ Becomes(AppendFace(Current, t))
    /\ explored' = Append(explored, t)
    /\ UNCHANGED pc
    /\ UNCHANGED <<callVars, exceptMesh>>

\* 204: the explorer has no more faces
Return ==
    /\ pc = "explore"
    /\ call = 2 => face_index = Len(shape)
    /\ pc' = "returned"
    /\ UNCHANGED <<vertices, triangles, faces_data, vertex_count, face_index, explored>>
    /\ UNCHANGED <<callVars, exceptMesh>>

\* extract_mesh_data is called a second time on the same shape: its locals
\* are set anew (80-83, 94); nothing else of the first call is kept by the code
CallAgain ==
    /\ pc = "returned"
    /\ call = 1
    /\ first' = <<vertices, triangles, faces_data>>
    /\ shape' = explored
    /\ call' = 2
    /\ Becomes(EmptyMesh)
    /\ explored' = <<>>
    /\ pc' = "mesh"
    /\ UNCHANGED exceptMesh

ExtractNext ==
    \/ MeshDone
    \/ MeshFailed
    \/ FaceSkipped
    \/ \E t \in Offered(SoundFaces(LocationOf(face_index), RoomV, RoomT)) : FaceExtracted(t)
    \/ \E t \in Offered(NodeRaiseFaces(LocationOf(face_index), RoomV)) : FaceVerticesRaise(t)
    \/ \E t \in Offered(TriRaiseFaces(LocationOf(face_index), RoomV, RoomT)) : FaceTrianglesRaise(t)
    \/ Return
    \/ CallAgain

\* 80-83, 94
ExtractInit ==
    /\ pc = "mesh"
    /\ vertices = <<>>
    /\ triangles = <<>>
    /\ faces_data = <<>>
    /\ vertex_count = 0
    /\ face_index = 0
    /\ explored = <<>>
    /\ call = 1
    /\ shape = <<>>
    /\ first = <<>>

----------------------------------------------------------------------------
(* The face analysis on its own: the calls at occserver.py:159 and 161 for  *)
(* the first face appended, whose triangles hold the indices 0..n-1 of its *)
(* own vertices (vertex_count is 0).                                       *)

\* vertices of the analysed face
MaxGeomVertices == 4
\* triangles of the analysed face
MaxGeomTriangles == 2

\* Lattice points of the plane z = 0; the first three lie on one line.
GeomPoints == {<<0, 0, 0>>, <<1, 0, 0>>, <<2, 0, 0>>, <<0, 1, 0>>}

\* The vertices of a face are distinct points.
GeomVertexLists ==
    UNION {{vs \in [1..n -> GeomPoints] : \A i, j \in 1..n : i # j => vs[i] # vs[j]} :
               n \in 0..MaxGeomVertices}

\* Triangles over n vertices, in both windings.
GeomTriples(n) ==
    {t \in (0..(n - 1)) \X (0..(n - 1)) \X (0..(n - 1)) :
        t[1] < t[2] /\ t[1] < t[3] /\ t[2] # t[3]}

GeomTriangleLists(n) == UNION {[1..m -> GeomTriples(n)] : m \in 0..MaxGeomTriangles}

GeomInit ==
    /\ an_pc = "input"
    /\ an_vertices \in GeomVertexLists
    /\ an_triangles \in GeomTriangleLists(Len(an_vertices))
    /\ an_area = 0
    /\ an_normal = <<0, 0, 0>>
    /\ an_normals = <<>>

\* 159: face_area = calculate_face_area_accurate(face_vertices, face_triangles)
AnalyzeArea ==
    /\ an_pc = "input"
    /\ an_area' = calculate_face_area_accurate(an_vertices, an_triangles)
    /\ an_pc' = "area"
    /\ UNCHANGED <<an_vertices, an_triangles, an_normal, an_normals>>
    /\ UNCHANGED exceptGeom

\* 161: face_normal = calculate_face_normal_accurate(face_vertices, face_triangles)
AnalyzeNormal ==
    /\ an_pc = "area"
    /\ an_normal' = calculate_face_normal_accurate(an_vertices, an_triangles)
    /\ an_pc' = "done"
    /\ UNCHANGED <<an_vertices, an_triangles, an_area, an_normals>>
    /\ UNCHANGED exceptGeom

\* 343: vertex_normals = calculate_normals(vertices, triangles), for a shape
\* of this one face
SynthesizeNormals ==
    /\ an_pc = "done"
    /\ an_normals' = calculate_normals(an_vertices, an_triangles)
    /\ an_pc' = "normals"
    /\ UNCHANGED <<an_vertices, an_triangles, an_area, an_normal>>
    /\ UNCHANGED exceptGeom

GeomNext == AnalyzeArea \/ AnalyzeNormal \/ SynthesizeNormals

----------------------------------------------------------------------------
(* create_bounding_box_stl (src/boundingBox.py).  Solids are kept by their  *)
(* spans in half units: a coordinate c is held as 2 * c.                    *)

\* largest extent of the bounding box on an axis
MaxExtent == 10
\* largest wall thickness
MaxWall == 2

\* where the bounding box starts on an axis
Origins == {-1, 0}

\* imported_shape.val().BoundingBox(): void for a shape without geometry,
\* otherwise a box with an extent on every axis
VoidBBox == [void |-> TRUE, min |-> <<0, 0, 0>>, max |-> <<0, 0, 0>>]

BBoxes ==
    {[void |-> FALSE, min |-> <<x, y, z>>, max |-> <<x + ex, y + ey, z + ez>>] :
        x \in Origins, y \in Origins, z \in Origins,
        ex \in 1..MaxExtent, ey \in 1..MaxExtent, ez \in 1..MaxExtent}

\* 21-26: xlen, ylen, zlen and the center, the center in half units
Measure(b) ==
    [length |-> b.max[1] - b.min[1],
     width  |-> b.max[2] - b.min[2],
     height |-> b.max[3] - b.min[3],
     center |-> <<b.min[1] + b.max[1], b.min[2] + b.max[2], b.min[3] + b.max[3]>>]

\* cq.Workplane("XY").box(l, w, h): centered on the origin, so it spans
\* -l/2 .. l/2 on x, and so on
Box(l, w, h) == [kind |-> "box", lo |-> <<-l, -w, -h>>, hi |-> <<l, w, h>>]

\* .translate((cx, cy, cz)), the center given in half units
Translate(b, c) ==
    [kind |-> "box",
     lo |-> <<b.lo[1] + c[1], b.lo[2] + c[2], b.lo[3] + c[3]>>,
     hi |-> <<b.hi[1] + c[1], b.hi[2] + c[2], b.hi[3] + c[3]>>]

\* 32-34
OuterBox(d) == Translate(Box(d.length, d.width, d.height), d.center)

\* the inner box with the wall taken off once, not on both sides
InnerBoxOneWall(d, w) ==
    Translate(Box(d.length - w, d.width - w, d.height - w), d.center)

\* 36-40
InnerBox(d, w) ==
    Translate(Box(d.length - 2 * w, d.width - 2 * w, d.height - 2 * w), d.center)

\* outer_box.cut(inner_box)
Cut(a, b) == [kind |-> "cut", outer |-> a, inner |-> b]

\* box() given a size that is not positive: what the kernel does with it is
\* not decided by this code, it may build something or raise
Buildable(l, w, h) == l > 0 /\ w > 0 /\ h > 0

ShellInit ==
    /\ sh_pc = "import"
    /\ bbox \in BBoxes \cup {VoidBBox}
    /\ wall_thickness \in 1..MaxWall
    /\ dims = <<>>
    /\ outer_box = <<>>
    /\ inner_box = <<>>
    /\ hollow_box = <<>>
    /\ exported = <<>>
    /\ sh_error = ""

\* 16-26: the shape is loaded and its bounding box measured.  The code does
\* not test the box for being void.
MeasureBBox ==
    /\ sh_pc = "import"
    /\ dims' = Measure(bbox)
    /\ sh_pc' = "outer"
    /\ UNCHANGED <<bbox, wall_thickness, outer_box, inner_box, hollow_box, exported, sh_error>>
    /\ UNCHANGED exceptShell

\* 20: the kernel may refuse to give the extent of a void box; the exception
\* is the kernel's and leaves the function
MeasureVoidRaises ==
    /\ sh_pc = "import"
    /\ bbox.void
    /\ sh_pc' = "raised"
    /\ sh_error' = "kernel exception"
    /\ UNCHANGED <<bbox, wall_thickness, dims, outer_box, inner_box, hollow_box, exported>>
    /\ UNCHANGED exceptShell

\* 32-34
MakeOuterBox ==
    /\ sh_pc = "outer"
    /\ outer_box' = OuterBox(dims)
    /\ sh_pc' = "inner"
    /\ UNCHANGED <<bbox, wall_thickness, dims, inner_box, hollow_box, exported, sh_error>>
    /\ UNCHANGED exceptShell

MakeOuterBoxRaises ==
    /\ sh_pc = "outer"
    /\ ~Buildable(dims.length, dims.width, dims.height)
    /\ sh_pc' = "raised"
    /\ sh_error' = "kernel exception"
    /\ UNCHANGED <<bbox, wall_thickness, dims, outer_box, inner_box, hollow_box, exported>>
    /\ UNCHANGED exceptShell

\* 36-40: built whatever the sizes left by the walls
MakeInnerBox ==
    /\ sh_pc = "inner"
    /\ inner_box' = InnerBox(dims, wall_thickness)
    /\ sh_pc' = "cut"
    /\ UNCHANGED <<bbox, wall_thickness, dims, outer_box, hollow_box, exported, sh_error>>
    /\ UNCHANGED exceptShell

MakeInnerBoxRaises ==
    /\ sh_pc = "inner"
    /\ ~Buildable(dims.length - 2 * wall_thickness,
                  dims.width - 2 * wall_thickness,
                  dims.height - 2 * wall_thickness)
    /\ sh_pc' = "raised"
    /\ sh_error' = "kernel exception"
    /\ UNCHANGED <<bbox, wall_thickness, dims, outer_box, inner_box, hollow_box, exported>>
    /\ UNCHANGED exceptShell

\* 42: always the difference
CutInner ==
    /\ sh_pc = "cut"
    /\ hollow_box' = Cut(outer_box, inner_box)
    /\ sh_pc' = "export"
    /\ UNCHANGED <<bbox, wall_thickness, dims, outer_box, inner_box, exported, sh_error>>
    /\ UNCHANGED exceptShell

\* 46-49: the shell is written and returned
ExportShell ==
    /\ sh_pc = "export"
    /\ exported' = hollow_box
    /\ sh_pc' = "done"
    /\ UNCHANGED <<bbox, wall_thickness, dims, outer_box, inner_box, hollow_box, sh_error>>
    /\ UNCHANGED exceptShell

ShellNext ==
    \/ MeasureBBox
    \/ MeasureVoidRaises
    \/ MakeOuterBox
    \/ MakeOuterBoxRaises
    \/ MakeInnerBox
    \/ MakeInnerBoxRaises
    \/ CutInner
    \/ ExportShell

----------------------------------------------------------------------------
(* process_step_file and the /process-step handler (occserver.py:325-362   *)
(* and 719-787; step_server.py:114-187 is the same handler).  Requests are *)
(* served by threads of one process and share UPLOAD_FOLDER and the clock. *)

\* requests in flight at a time
MaxRequests == 2
\* seconds the clock advances while they are served
MaxClock == 1

Requests == 1..MaxRequests

\* A file name as stem and extension: "a.step" is Name("a", ".step") and
\* ".step" is Name("", ".step").
Name(stem, ext) == [stem |-> stem, ext |-> ext]

ALLOWED_EXTENSIONS == {".step", ".stp", ".iges", ".igs"}

\* 46-48: filename.lower().endswith(ext) for some allowed ext
allowed_file(n) == n.ext \in ALLOWED_EXTENSIONS

WithoutDot(e) ==
    CASE e = ".step" -> "step" [] e = ".stp" -> "stp"
      [] e = ".iges" -> "iges" [] e = ".igs" -> "igs" [] OTHER -> e

\* werkzeug's secure_filename on names of this shape: a name that is only
\* an extension loses its leading dot, ".step" becomes "step"
secure_filename(n) == IF n.stem = "" THEN Name(WithoutDot(n.ext), "") ELSE n

\* what the kernel makes of an uploaded file
FileContents == {"unreadable", "unmeshable", "solid"}

\* request.files of a request: no 'stepFile' part, a part with an empty
\* name, a part with a name that is not allowed, or an allowed upload
Uploads ==
    {[given |-> FALSE, filename |-> Name("", ""), content |-> "solid"]}
      \cup {[given |-> TRUE, filename |-> n, content |-> "solid"] :
                n \in {Name("", ""), Name("a", ".txt")}}
      \cup {[given |-> TRUE, filename |-> Name("a", ".step"), content |-> k] :
                k \in FileContents}
      \cup {[given |-> TRUE, filename |-> Name("b", ".igs"), content |-> k] :
                k \in {"unreadable", "solid"}}
      \cup {[given |-> TRUE, filename |-> Name("", ".step"), content |-> "solid"]}

NoUpload == [given |-> FALSE, filename |-> Name("", ""), content |-> ""]

\* 736-738: os.path.join(UPLOAD_FOLDER, f"{timestamp}-{filename}")
FilePath(timestamp, filename) ==
    [folder |-> "temp", timestamp |-> timestamp, filename |-> filename]

NoPath == [folder |-> "", timestamp |-> 0, filename |-> Name("", "")]

\* the folder as a set of files, one per path
Exists(dir, p) == \E e \in dir : e.path = p
DataAt(dir, p) == (CHOOSE e \in dir : e.path = p).data
\* file.save(file_path) writes over a file of the same path
Saved(dir, p, d) == {e \in dir : e.path # p} \cup {[path |-> p, data |-> d]}
Removed(dir, p) == {e \in dir : e.path # p}

\* what a call comes back with: an exception or a value
Raise(msg) == [raised |-> TRUE, error |-> msg, value |-> <<>>]
Value(v) == [raised |-> FALSE, error |-> "", value |-> v]

\* 50-62: ReadFile gives a status other than 1 for a path without a file and
\* for a file it cannot read
read_step_file(dir, p) ==
    IF ~Exists(dir, p) THEN Raise("Failed to read STEP file")
    ELSE IF DataAt(dir, p).content = "unreadable" THEN Raise("Failed to read STEP file")
    ELSE Value(DataAt(dir, p))

\* 64-76
read_iges_file(dir, p) ==
    IF ~Exists(dir, p) THEN Raise("Failed to read IGES file")
    ELSE IF DataAt(dir, p).content = "unreadable" THEN Raise("Failed to read IGES file")
    ELSE Value(DataAt(dir, p))

\* the faces of the solid the uploads hold: one face of three nodes and one
\* triangle
ShapeFaces == <<Triangulation(NodeSeq(3), 0, <<<<1, 2, 3>>>>, 0, <<0, 0, 0>>)>>

\* 78-204 as a whole: `raise Exception("Meshing failed")` at 89-90, or the
\* three lists
extract_mesh_data(solid) ==
    IF solid.content = "unmeshable" THEN Raise("Meshing failed")
    ELSE LET m == ExtractLoop(EmptyMesh, ShapeFaces)
         IN  Value([vertices |-> m.vertices, triangles |-> m.triangles,
                    faces_data |-> m.faces_data])

\* 343-354
MeshData(x) ==
    [vertices      |-> Flatten3(x.vertices),
     indices       |-> Flatten3(x.triangles),
     normals       |-> Flatten3(calculate_normals(x.vertices, x.triangles)),
     faces         |-> x.faces_data,
     faceIndex     |-> 1,
     vertexCount   |-> Len(x.vertices),
     triangleCount |-> Len(x.triangles),
     faceCount     |-> Len(x.faces_data)]

\* 330-356: the body of the try
TryProcess(dir, p) ==
    LET ext   == p.filename.ext
        solid == IF ext \in {".step", ".stp"} THEN read_step_file(dir, p)
                 ELSE IF ext \in {".iges", ".igs"} THEN read_iges_file(dir, p)
                 ELSE Raise("Unsupported file format")
    IN  IF solid.raised THEN solid
        ELSE LET mesh == extract_mesh_data(solid.value)
             IN  IF mesh.raised THEN mesh ELSE Value(<<MeshData(mesh.value)>>)

\* a handler that gives back an empty list of meshes instead of raising
process_step_file_swallowing(dir, p) ==
    IF TryProcess(dir, p).raised THEN Value(<<>>) ELSE TryProcess(dir, p)

\* 325-362: the handler at 358-362 prints and raises the exception again
process_step_file(dir, p) ==
    IF TryProcess(dir, p).raised THEN Raise(TryProcess(dir, p).error)
    ELSE TryProcess(dir, p)

Answer(status, success, error, details, meshes, total) ==
    [status |-> status, success |-> success, error |-> error, details |-> details,
     meshes |-> meshes, totalVertices |-> total]

NoAnswer == Answer(0, FALSE, "", "", <<>>, 0)

\* 749-779: the success payload, or the answer of `except Exception`
Respond(result) ==
    IF result.raised
      THEN Answer(500, FALSE, "Failed to process STEP file", result.error, <<>>, 0)
      ELSE Answer(200, TRUE, "", "", result.value,
                  SumSeq([i \in 1..Len(result.value) |-> result.value[i].vertexCount]))

NothingRead == [found |-> FALSE, owner |-> 0, content |-> ""]

ServerInit ==
    /\ clock = 0
    /\ upload_folder = {}
    /\ rq_pc = [r \in Requests |-> "idle"]
    /\ rq_upload = [r \in Requests |-> NoUpload]
    /\ rq_path = [r \in Requests |-> NoPath]
    /\ rq_read = [r \in Requests |-> NothingRead]
    /\ rq_meshes = [r \in Requests |-> <<>>]
    /\ rq_response = [r \in Requests |-> NoAnswer]

\* a second passes
Tick ==
    /\ clock < MaxClock
    /\ clock' = clock + 1
    /\ UNCHANGED <<upload_folder, rq_pc, rq_upload, rq_path, rq_read, rq_meshes, rq_response>>
    /\ UNCHANGED exceptServer

\* The requests are numbered in the order in which they arrive.
Arrives(r) == rq_pc[r] = "idle" /\ (IF r = 1 THEN TRUE ELSE rq_pc[r - 1] # "idle")

\* 724-733: the three answers with status 400
Reject(r, u) ==
    /\ Arrives(r)
    /\ ~u.given \/ u.filename = Name("", "") \/ ~allowed_file(u.filename)
    /\ rq_upload' = [rq_upload EXCEPT ![r] = u]
    /\ rq_response' = [rq_response EXCEPT ![r] =
          IF ~u.given THEN Answer(400, FALSE, "No file uploaded", "", <<>>, 0)
          ELSE IF u.filename = Name("", "")
            THEN Answer(400, FALSE, "No file selected", "", <<>>, 0)
          ELSE Answer(400, FALSE, "Invalid file type", "", <<>>, 0)]
    /\ rq_pc' = [rq_pc EXCEPT ![r] = "done"]
    /\ UNCHANGED <<clock, upload_folder, rq_path, rq_read, rq_meshes>>
    /\ UNCHANGED exceptServer

\* 735-738: the path of the temp file, from the clock and the name
Accept(r, u) ==
    /\ Arrives(r)
    /\ u.given /\ u.filename # Name("", "") /\ allowed_file(u.filename)
    /\ rq_upload' = [rq_upload EXCEPT ![r] = u]
    /\ rq_path' = [rq_path EXCEPT ![r] = FilePath(clock, secure_filename(u.filename))]
    /\ rq_pc' = [rq_pc EXCEPT ![r] = "save"]
    /\ UNCHANGED <<clock, upload_folder, rq_read, rq_meshes, rq_response>>
    /\ UNCHANGED exceptServer

\* 741-742: file.save(file_path)
Save(r) ==
    /\ rq_pc[r] = "save"
    /\ upload_folder' = Saved(upload_folder, rq_path[r],
                              [owner |-> r, content |-> rq_upload[r].content])
    /\ rq_pc' = [rq_pc EXCEPT ![r] = "process"]
    /\ UNCHANGED <<clock, rq_upload, rq_path, rq_read, rq_meshes, rq_response>>
    /\ UNCHANGED exceptServer

\* 747-779: process_step_file(file_path) and the answer made of what it
\* returns or raises
Process(r) ==
    /\ rq_pc[r] = "process"
    /\ rq_read' = [rq_read EXCEPT ![r] =
          IF Exists(upload_folder, rq_path[r])
            THEN [found |-> TRUE, owner |-> DataAt(upload_folder, rq_path[r]).owner,
                  content |-> DataAt(upload_folder, rq_path[r]).content]
            ELSE NothingRead]
    /\ rq_meshes' = [rq_meshes EXCEPT ![r] = process_step_file(upload_folder, rq_path[r]).value]
    /\ rq_response' = [rq_response EXCEPT ![r] =
                          Respond(process_step_file(upload_folder, rq_path[r]))]
    /\ rq_pc' = [rq_pc EXCEPT ![r] = "cleanup"]
    /\ UNCHANGED <<clock, upload_folder, rq_upload, rq_path>>
    /\ UNCHANGED exceptServer

\* 781-787: `if os.path.exists(file_path): os.remove(file_path)`
Cleanup(r) ==
    /\ rq_pc[r] = "cleanup"
    /\ upload_folder' = Removed(upload_folder, rq_path[r])
    /\ rq_pc' = [rq_pc EXCEPT ![r] = "done"]
    /\ UNCHANGED <<clock, rq_upload, rq_path, rq_read, rq_meshes, rq_response>>
    /\ UNCHANGED exceptServer

ServerNext ==
    \/ Tick
    \/ \E r \in Requests : \E u \in Uploads : Reject(r, u)
    \/ \E r \in Requests : \E u \in Uploads : Accept(r, u)
    \/ \E r \in Requests : Save(r)
    \/ \E r \in Requests : Process(r)
    \/ \E r \in Requests : Cleanup(r)

----------------------------------------------------------------------------
(* The export of a solid and of its bounding shell.  The shell is built and *)
(* written by create_bounding_box_stl (src/boundingBox.py), modelled above. *)
(* The steps around it, which write the full model and report per artifact, *)
(* are not in src/ and follow spec.md section 4.7.                          *)

ExportInit ==
    /\ ex_pc = "running"
    /\ ex_full = "pending"
    /\ ex_shell = "pending"
    /\ ex_report = <<>>

\* the full model is written whatever became of the shell, except on a
\* failed shell
FullAttemptedUnlessShellFailed(shell_status) == shell_status # "failed"

\* section 4.7: the two artifacts are serialized independently
FullAttempted(shell_status) == TRUE

\* create_bounding_box_stl has returned (the shell file is written at line
\* 46) or an exception has left it
NoteShell ==
    /\ ex_pc = "running"
    /\ ex_shell = "pending"
    /\ sh_pc \in {"done", "raised"}
    /\ ex_shell' = IF sh_pc = "done" THEN "written" ELSE "failed"
    /\ UNCHANGED <<ex_pc, ex_full, ex_report>>
    /\ UNCHANGED exceptExport

\* writeMeshFile(solid, path, tolerance) gives its success flag
WriteFull(ok) ==
    /\ ex_pc = "running"
    /\ ex_full = "pending"
    /\ FullAttempted(ex_shell)
    /\ ex_full' = IF ok THEN "written" ELSE "failed"
    /\ UNCHANGED <<ex_pc, ex_shell, ex_report>>
    /\ UNCHANGED exceptExport

\* success or failure is reported per artifact
Report ==
    /\ ex_pc = "running"
    /\ ex_shell # "pending"
    /\ ex_full # "pending" \/ ~FullAttempted(ex_shell)
    /\ ex_report' = [full |-> ex_full = "written", shell |-> ex_shell = "written"]
    /\ ex_pc' = "done"
    /\ UNCHANGED <<ex_full, ex_shell>>
    /\ UNCHANGED exceptExport

ExportNext ==
    \/ NoteShell
    \/ \E ok \in BOOLEAN : WriteFull(ok)
    \/ Report

----------------------------------------------------------------------------
(* The STL store of src/occserver.py: /api/store-stl, /api/project/<id> and *)
(* /api/list-projects over the directory STL_STORAGE_FOLDER.                *)

MaxStoreClock == 1

ProjectIds == {"p1", "p2"}
GroupNames == {"a", "b"}

\* os.listdir is taken to list the entries in this order
ProjectOrder == <<"p1", "p2">>
GroupOrder == <<"a", "b">>

\* a field that is absent or empty: `not field` holds (line 395)
Missing == ""
NoText == <<>>

\* stlData, a text as a sequence of characters: "QUJD" is base64, "QQ="
\* lacks a pad, "Q" is one character too many, "!QUJD" holds a character
\* outside the alphabet
StlTexts ==
    {<<"Q", "U", "J", "D">>, <<"Q", "Q", "=">>, <<"Q">>,
     <<"!", "Q", "U", "J", "D">>}

Base64Alphabet == {"Q", "U", "J", "D"}

DataChars(text) == SelectSeq(text, LAMBDA c : c \in Base64Alphabet)
Pads(text) == Len(SelectSeq(text, LAMBDA c : c = "="))

\* base64.b64decode(text) without validate: characters outside the alphabet
\* are dropped, four characters give three bytes, a last group of two or
\* three characters must be padded to four.  The value is the number of
\* bytes decoded.
b64decode(text) ==
    LET n == Len(DataChars(text))
        q == n % 4
        whole == 3 * (n \div 4)
    IN  IF q = 0 THEN Value(whole)
        ELSE IF q = 1 THEN Raise("Invalid base64-encoded string")
        ELSE IF q + Pads(text) >= 4 THEN Value(whole + q - 1)
        ELSE Raise("Incorrect padding")

\* request.get_json() of a /api/store-stl request
NoJson ==
    [json |-> FALSE, projectId |-> Missing, groupName |-> Missing,
     stlData |-> NoText, metadata |-> FALSE]

CompleteRequests ==
    [json : {TRUE}, projectId : ProjectIds, groupName : GroupNames,
     stlData : StlTexts, metadata : BOOLEAN]

\* a complete request, or one without its JSON, or one that lacks a field
StoreRequests ==
    {NoJson} \cup CompleteRequests
    \cup {[d EXCEPT !.projectId = Missing] : d \in {c \in CompleteRequests : c.groupName = "a" /\ c.metadata}}
    \cup {[d EXCEPT !.groupName = Missing] : d \in {c \in CompleteRequests : c.metadata}}
    \cup {[d EXCEPT !.stlData = NoText] : d \in {c \in CompleteRequests : c.groupName = "a" /\ c.metadata}}

\* the storage: dirs maps a project directory to the time it last changed,
\* files maps <<project, name>> to the time of the last write and the contents
EmptyStorage == [dirs |-> <<>>, files |-> <<>>]

StlName(group_name) == Name(group_name, ".stl")
MetadataName(group_name) == Name(group_name, "_metadata.json")

\* os.makedirs(project_dir, exist_ok=True)
MakeDirs(fs, project_id, now) ==
    IF project_id \in DOMAIN fs.dirs
      THEN fs
      ELSE [fs EXCEPT !.dirs = (project_id :> now) @@ fs.dirs]

\* open(path, 'w') and write: a new entry changes the directory as well
WriteFile(fs, project_id, name, content, now) ==
    LET path == <<project_id, name>>
        entry == [changed |-> now, content |-> content]
    IN  [dirs |-> IF path \in DOMAIN fs.files
                    THEN fs.dirs
                    ELSE (project_id :> now) @@ fs.dirs,
         files |-> (path :> entry) @@ fs.files]

StoreAnswer(status, success, error, file_path, file_size, timestamp) ==
    [status |-> status, success |-> success, error |-> error,
     filePath |-> file_path, fileSize |-> file_size, timestamp |-> timestamp]

StoreRejected(error) == StoreAnswer(400, FALSE, error, <<>>, 0, 0)

NoStoreAnswer == StoreAnswer(0, FALSE, "", <<>>, 0, 0)

\* store_stl: the storage it leaves and its answer
store_stl(fs, data, now) ==
    IF ~data.json
      THEN [storage |-> fs, response |-> StoreRejected("No JSON data received")]
    ELSE IF data.projectId = Missing \/ data.groupName = Missing \/ data.stlData = NoText
      THEN [storage |-> fs,
            response |-> StoreRejected("Missing required fields: projectId, groupName, stlData")]
    ELSE
      LET made == MakeDirs(fs, data.projectId, now)
          binary_data == b64decode(data.stlData)
      IN  IF binary_data.raised
            THEN [storage |-> made,
                  response |-> StoreRejected("Failed to decode base64 STL data")]
            ELSE
              LET saved == WriteFile(made, data.projectId, StlName(data.groupName),
                                     binary_data.value, now)
                  described ==
                      IF data.metadata
                        THEN WriteFile(saved, data.projectId, MetadataName(data.groupName),
                                       [timestamp |-> now, file_size |-> binary_data.value],
                                       now)
                        ELSE saved
              IN  [storage |-> described,
                   response |-> StoreAnswer(200, TRUE, "",
                                            <<data.projectId, StlName(data.groupName)>>,
                                            binary_data.value, now)]

\* sorted(items, key=lambda x: x['created'], reverse=True): the newest
\* first, items of one time in the order they had
RECURSIVE NewestFirst(_)
NewestFirst(items) ==
    IF items = <<>> THEN <<>>
    ELSE LET newest == CHOOSE i \in 1..Len(items) :
                           /\ \A j \in 1..Len(items) : items[j].created <= items[i].created
                           /\ \A j \in 1..(i - 1) : items[j].created < items[i].created
             others == [j \in 1..(Len(items) - 1) |->
                           IF j < newest THEN items[j] ELSE items[j + 1]]
         IN  <<items[newest]>> \o NewestFirst(others)

NoMetadata == <<>>

\* the .stl files of a project directory, each with its metadata
ProjectFiles(fs, project_id) ==
    LET groups == SelectSeq(GroupOrder,
                            LAMBDA g : <<project_id, StlName(g)>> \in DOMAIN fs.files)
    IN  [i \in 1..Len(groups) |->
            LET file == fs.files[<<project_id, StlName(groups[i])>>]
                metadata_path == <<project_id, MetadataName(groups[i])>>
            IN  [name |-> StlName(groups[i]),
                 size |-> file.content,
                 created |-> file.changed,
                 modified |-> file.changed,
                 metadata |-> IF metadata_path \in DOMAIN fs.files
                                THEN fs.files[metadata_path].content
                                ELSE NoMetadata]]

\* get_project_status
get_project_status(fs, project_id) ==
    IF project_id \notin DOMAIN fs.dirs
      THEN [status |-> 404, success |-> FALSE, error |-> "Project not found",
            projectId |-> Missing, files |-> <<>>, totalFiles |-> 0, totalSize |-> 0]
      ELSE LET files == ProjectFiles(fs, project_id)
           IN  [status |-> 200, success |-> TRUE, error |-> "",
                projectId |-> project_id, files |-> NewestFirst(files),
                totalFiles |-> Len(files),
                totalSize |-> SumSeq([i \in 1..Len(files) |-> files[i].size])]

\* list_projects
list_projects(fs) ==
    LET names == SelectSeq(ProjectOrder, LAMBDA p : p \in DOMAIN fs.dirs)
        projects == [i \in 1..Len(names) |->
                        [projectId |-> names[i],
                         fileCount |-> Len(ProjectFiles(fs, names[i])),
                         created |-> fs.dirs[names[i]]]]
    IN  [status |-> 200, success |-> TRUE, projects |-> NewestFirst(projects)]

NotAsked == <<>>

StoreInit ==
    /\ stl_storage = EmptyStorage
    /\ st_now = 0
    /\ st_before = EmptyStorage
    /\ st_response = NoStoreAnswer
    /\ st_answer = NotAsked

StoreTick ==
    /\ st_now < MaxStoreClock
    /\ st_now' = st_now + 1
    /\ UNCHANGED <<stl_storage, st_before, st_response, st_answer>>
    /\ UNCHANGED exceptStore

\* POST /api/store-stl
StoreStl(data) ==
    /\ st_before' = IF store_stl(stl_storage, data, st_now).response.status = 400
                      THEN stl_storage
                      ELSE EmptyStorage
    /\ stl_storage' = store_stl(stl_storage, data, st_now).storage
    /\ st_response' = store_stl(stl_storage, data, st_now).response
    /\ st_answer' = NotAsked
    /\ UNCHANGED st_now
    /\ UNCHANGED exceptStore

\* GET /api/project/<project_id>
GetProjectStatus(project_id) ==
    /\ st_answer' = get_project_status(stl_storage, project_id)
    /\ UNCHANGED <<stl_storage, st_now, st_before, st_response>>
    /\ UNCHANGED exceptStore

\* GET /api/list-projects
ListProjects ==
    /\ st_answer' = list_projects(stl_storage)
    /\ UNCHANGED <<stl_storage, st_now, st_before, st_response>>
    /\ UNCHANGED exceptStore

StoreNext ==
    \/ StoreTick
    \/ \E data \in StoreRequests : StoreStl(data)
    \/ \E project_id \in ProjectIds : GetProjectStatus(project_id)
    \/ ListProjects

----------------------------------------------------------------------------
(* Idle values of the parts a specification does not run *)

ExtractIdle ==
    /\ pc = "idle" /\ vertices = <<>> /\ triangles = <<>> /\ faces_data = <<>>
    /\ vertex_count = 0 /\ face_index = 0 /\ explored = <<>>
    /\ call = 0 /\ shape = <<>> /\ first = <<>>

GeomIdle ==
    /\ an_pc = "idle" /\ an_vertices = <<>> /\ an_triangles = <<>>
    /\ an_area = 0 /\ an_normal = <<0, 0, 0>> /\ an_normals = <<>>

ShellIdle ==
    /\ sh_pc = "idle" /\ bbox = <<>> /\ wall_thickness = 0 /\ dims = <<>>
    /\ outer_box = <<>> /\ inner_box = <<>> /\ hollow_box = <<>>
    /\ exported = <<>> /\ sh_error = ""

ServerIdle ==
    /\ clock = 0 /\ upload_folder = {} /\ rq_pc = <<>> /\ rq_upload = <<>>
    /\ rq_path = <<>> /\ rq_read = <<>> /\ rq_meshes = <<>> /\ rq_response = <<>>

ExportIdle ==
    /\ ex_pc = "idle" /\ ex_full = "" /\ ex_shell = "" /\ ex_report = <<>>

StoreIdle ==
    /\ stl_storage = <<>> /\ st_now = 0 /\ st_before = <<>>
    /\ st_response = <<>> /\ st_answer = <<>>

Init == ExtractInit /\ GeomIdle /\ ShellIdle /\ ServerIdle /\ ExportIdle /\ StoreIdle

Next == ExtractNext

Spec == Init /\ [][Next]_vars

\* the face analysis alone
InitGeom == GeomInit /\ ExtractIdle /\ ShellIdle /\ ServerIdle /\ ExportIdle /\ StoreIdle

NextGeom == GeomNext

SpecGeom == InitGeom /\ [][NextGeom]_vars

\* the bounding shell alone
InitShell == ShellInit /\ ExtractIdle /\ GeomIdle /\ ServerIdle /\ ExportIdle /\ StoreIdle

NextShell == ShellNext

SpecShell == InitShell /\ [][NextShell]_vars

\* the /process-step handler alone
InitServer == ServerInit /\ ExtractIdle /\ GeomIdle /\ ShellIdle /\ ExportIdle /\ StoreIdle

NextServer == ServerNext

SpecServer == InitServer /\ [][NextServer]_vars

\* the export: create_bounding_box_stl and the steps around it
InitExport == ShellInit /\ ExportInit /\ ExtractIdle /\ GeomIdle /\ ServerIdle /\ StoreIdle

NextExport == ShellNext \/ ExportNext

SpecExport == InitExport /\ [][NextExport]_vars

\* the STL store alone
InitStore ==
    StoreInit /\ ExtractIdle /\ GeomIdle /\ ShellIdle /\ ServerIdle /\ ExportIdle

NextStore == StoreNext

SpecStore == InitStore /\ [][NextStore]_vars

----------------------------------------------------------------------------
(* Properties of extract_mesh_data, under Spec *)

Returned == pc = "returned"

Faces == 1..Len(faces_data)

\* the adapter's data of the face a face_info was built from
SourceOf(f) == explored[f.faceIndex + 1]

\* a face was abandoned in its triangle loop after a triangle was appended
SomeFaceLeftTriangles ==
    \E i \in 1..Len(explored) : explored[i].tri_raises > 1

\* a face was abandoned after a vertex was appended
SomeFaceLeftVertices ==
    \E i \in 1..Len(explored) :
        /\ explored[i].node_raises > 0 \/ explored[i].tri_raises > 0
        /\ NodesRead(explored[i]) > 0

\* C1: in the result, the triangleCount of the returned faces add up to the
\* number of triangles of the global triangle list.
C1_TriangleCountsAddUp ==
    Returned =>
        SumSeq([i \in Faces |-> faces_data[i].triangleCount]) = Len(triangles)

\* C2: in the result, every index of the global triangle list is at least 0
\* and below the number of vertices of the global vertex list.
C2_IndicesInRange ==
    Returned =>
        \A i \in 1..Len(triangles) : \A k \in 1..3 :
            0 <= triangles[i][k] /\ triangles[i][k] < Len(vertices)

\* C3: whenever a face is about to be processed, the offset vertex_count is
\* the number of vertices in the global vertex list.
C3_OffsetIsVertexTotal ==
    More => vertex_count = Len(vertices)

\* C4: in the result, the triangleIndices of the returned faces are pairwise
\* disjoint, they are the positions of the face's own triangles, and every
\* position of the global triangle list belongs to exactly one face.
C4_TriangleIndicesPartition ==
    Returned =>
        /\ \A i, j \in Faces :
              i # j => Range(faces_data[i].triangleIndices)
                         \cap Range(faces_data[j].triangleIndices) = {}
        /\ \A i \in Faces :
              LET f == faces_data[i] IN
              /\ Len(f.triangleIndices) = Len(SourceOf(f).tris)
              /\ \A k \in 1..Len(f.triangleIndices) :
                    /\ f.triangleIndices[k] + 1 \in 1..Len(triangles)
                    /\ triangles[f.triangleIndices[k] + 1]
                         = GlobalIndices(SourceOf(f).tris[k], f.startVertexIndex)
        /\ \A p \in 0..(Len(triangles) - 1) :
              Cardinality({i \in Faces : p \in Range(faces_data[i].triangleIndices)}) = 1

\* the same faces, those whose extraction raises taken to have no triangulation
Failed(t) == t.present /\ (t.node_raises > 0 \/ t.tri_raises > 0)

WithoutFailedFaces(faces) ==
    [i \in 1..Len(faces) |-> IF Failed(faces[i]) THEN NoTriangulation ELSE faces[i]]

\* C5: the result is the one the same shape gives with every face whose
\* extraction raises replaced by a face without triangulation.
C5_FailedFaceLeavesNothing ==
    Returned => Current = ExtractLoop(EmptyMesh, WithoutFailedFaces(explored))

\* the distinct entries of a list in the order of their first occurrence
RECURSIVE FirstRefs(_)
FirstRefs(s) ==
    IF s = <<>> THEN <<>>
    ELSE LET r == FirstRefs(SubSeq(s, 1, Len(s) - 1))
         IN  IF s[Len(s)] \in Range(r) THEN r ELSE Append(r, s[Len(s)])

PosIn(s, x) == CHOOSE i \in 1..Len(s) : s[i] = x

\* the triangles read from a face, as the adapter reported them
TrisReported(t) == SubSeq(t.tris, 1, TrisRead(t))

\* every triangle read from the face reports nodes within 1..NbNodes
NodesInRange(t) ==
    \A k \in 1..TrisRead(t) : \A j \in 1..3 : t.tris[k][j] \in 1..Len(t.nodes)

\* C11: in the result, a face with triangles, all of them within the face's
\* nodes, holds as its vertices the transformed nodes its triangles reference,
\* each once and in the order of first reference, and each of its triangles
\* holds the local positions of its three nodes in the order reported.
C11_ReferencedNodesInOrder ==
    Returned =>
        \A i \in Faces :
            LET f    == faces_data[i]
                t    == SourceOf(f)
                refs == FirstRefs(Flatten3(t.tris))
            IN  (t.tris # <<>> /\ NodesInRange(t)) =>
                    /\ f.vertices = [k \in 1..Len(refs) |-> Transform(t.nodes[refs[k]], t.trsf)]
                    /\ \A k \in 1..Len(t.tris) : \A j \in 1..3 :
                          triangles[f.startTriangleIndex + k][j] - f.startVertexIndex
                            = PosIn(refs, t.tris[k][j]) - 1

\* C11 as amended: in the result, a face whose triangles are all within the
\* face's nodes holds as its vertices all the nodes of its triangulation,
\* referenced or not, each once, in the order of the nodes and transformed by
\* the face's location, and each of its triangles holds the local positions
\* (node index - 1) of its three nodes in the order reported.
C11_AllNodesInNodeOrder ==
    Returned =>
        \A i \in Faces :
            LET f == faces_data[i]
                t == SourceOf(f)
            IN  NodesInRange(t) =>
                    /\ f.vertices = [k \in 1..Len(t.nodes) |-> Transform(t.nodes[k], t.trsf)]
                    /\ f.triangleCount = Len(t.tris)
                    /\ \A k \in 1..Len(t.tris) : \A j \in 1..3 :
                          triangles[f.startTriangleIndex + k][j] - f.startVertexIndex
                            = t.tris[k][j] - 1

\* a face of three nodes was returned whose only triangle starts at the second
\* node and leaves the third node out
C11_Witness ==
    /\ Returned
    /\ \E i \in Faces :
          /\ Len(SourceOf(faces_data[i]).nodes) = 3
          /\ SourceOf(faces_data[i]).tris = <<<<2, 1, 1>>>>
          /\ faces_data[i].vertexCount = 3
          /\ triangles[faces_data[i].startTriangleIndex + 1] = <<1, 0, 0>>

\* C12: in the result, no returned face has zero triangles.
C12_NoFaceWithoutTriangles ==
    Returned => \A i \in Faces : faces_data[i].triangleCount > 0

\* the positions start .. start + count - 1
Span(start, count) == start..(start + count - 1)

\* C13: in the result, the vertexCount of the returned faces add up to the
\* number of vertices, the vertex ranges of the returned faces are pairwise
\* disjoint, and the vertexIndices of a face are the positions of its range,
\* which hold the face's own vertices.
C13_VerticesNeverMerged ==
    Returned =>
        /\ SumSeq([i \in Faces |-> faces_data[i].vertexCount]) = Len(vertices)
        /\ \A i, j \in Faces :
              i # j => Span(faces_data[i].startVertexIndex, faces_data[i].vertexCount)
                         \cap Span(faces_data[j].startVertexIndex, faces_data[j].vertexCount) = {}
        /\ \A i \in Faces :
              LET f == faces_data[i] IN
              /\ Len(f.vertexIndices) = f.vertexCount
              /\ Range(f.vertexIndices) = Span(f.startVertexIndex, f.vertexCount)
              /\ \A k \in 1..f.vertexCount :
                    /\ f.vertexIndices[k] + 1 \in 1..Len(vertices)
                    /\ vertices[f.vertexIndices[k] + 1] = ReadVertices(SourceOf(f))[k]

\* two returned faces hold a vertex with the same coordinates
CoincidentVertices ==
    \E i, j \in Faces : i # j /\ Range(faces_data[i].vertices) \cap Range(faces_data[j].vertices) # {}

\* where the entries of the global triangle list come from: for each explored
\* face that reached its triangle loop, the triangles read from it
RECURSIVE TriangleSources(_)
TriangleSources(faces) ==
    IF faces = <<>> THEN <<>>
    ELSE LET t == faces[Len(faces)]
         IN  TriangleSources(SubSeq(faces, 1, Len(faces) - 1))
               \o (IF t.present /\ t.node_raises = 0
                     THEN [k \in 1..TrisRead(t) |-> [tri |-> t.tris[k], nodes |-> Len(t.nodes)]]
                     ELSE <<>>)

\* C16: a face one of whose triangles reports a node outside 1..NbNodes is
\* never among the returned faces, and no entry of the global triangle list
\* was built from a triple with such a node.
C16_OutOfRangeFaceFails ==
    /\ \A i \in Faces : NodesInRange(SourceOf(faces_data[i]))
    /\ LET src == TriangleSources(explored)
       IN  /\ Len(src) = Len(triangles)
           /\ \A p \in 1..Len(src) : \A j \in 1..3 : src[p].tri[j] \in 1..src[p].nodes

C19_AbsentFaceOnlyCounts ==
    /\ [][(Len(explored') = Len(explored) + 1 /\ ~explored'[Len(explored')].present)
            => /\ vertices' = vertices /\ triangles' = triangles
               /\ faces_data' = faces_data /\ vertex_count' = vertex_count
               /\ face_index' = face_index + 1 /\ pc' = pc]_vars
    /\ [][Len(faces_data') = Len(faces_data) + 1
            => /\ faces_data'[Len(faces_data')].id = FaceId(Len(explored))
               /\ faces_data'[Len(faces_data')].faceIndex = Len(explored)]_vars
    /\ [](\A i, j \in Faces :
            i < j => /\ faces_data[i].faceIndex < faces_data[j].faceIndex
                     /\ faces_data[i].id # faces_data[j].id)

\* a face was skipped, and the face after it was returned as face_1
C19_Witness ==
    /\ Returned
    /\ Len(explored) = 2
    /\ ~explored[1].present
    /\ Len(faces_data) = 1
    /\ faces_data[1].id = "face_1"
    /\ faces_data[1].vertexCount > 0
    /\ faces_data[1].startVertexIndex = 0

----------------------------------------------------------------------------
(* Properties of the face analysis, under SpecGeom *)

\* the three vertices a triangle references
Corner(vs, tri, k) == vs[tri[k] + 1]

\* half the length of the cross product of a triangle's own edges, in half units
OwnArea(vs, tri) ==
    Magnitude(Cross(Edge(Corner(vs, tri, 1), Corner(vs, tri, 2)),
                    Edge(Corner(vs, tri, 1), Corner(vs, tri, 3))))

\* C6: the area of a face is the sum of the areas of its triangles, each
\* taken from the three vertices that triangle references.
C6_AreaSumsOwnTriangles ==
    an_pc \in {"area", "done"} =>
        an_area = SumSeq([i \in 1..Len(an_triangles) |-> OwnArea(an_vertices, an_triangles[i])])

\* C7: the normal of a face is the normalized cross product of the edges of
\* its first triangle, [0,0,1] exactly when that product is zero, and always
\* of length one.
C7_NormalOfFirstTriangle ==
    (an_pc = "done" /\ an_triangles # <<>>) =>
        LET c == Cross(Edge(Corner(an_vertices, an_triangles[1], 1),
                            Corner(an_vertices, an_triangles[1], 2)),
                       Edge(Corner(an_vertices, an_triangles[1], 1),
                            Corner(an_vertices, an_triangles[1], 3)))
        IN  /\ an_normal = IF Magnitude(c) = 0 THEN UnitZ ELSE Scaled(c, Magnitude(c))
            /\ an_normal[1] * an_normal[1] + an_normal[2] * an_normal[2]
                 + an_normal[3] * an_normal[3] = 1

\* the cross product of the edges of a triangle, from its own three vertices
OwnCross(vs, tri) ==
    Cross(Edge(Corner(vs, tri, 1), Corner(vs, tri, 2)),
          Edge(Corner(vs, tri, 1), Corner(vs, tri, 3)))

\* what the triangles leave at vertex v (0-based): the sum of the unit
\* normals of the triangles that reference v and are not degenerate
RECURSIVE UnitNormalsAt(_, _, _)
UnitNormalsAt(vs, ts, v) ==
    IF ts = <<>> THEN <<0, 0, 0>>
    ELSE LET rest == UnitNormalsAt(vs, Tail(ts), v)
             c    == OwnCross(vs, Head(ts))
             u    == IF v \in Range(Head(ts)) /\ Magnitude(c) > 0
                       THEN Scaled(c, Magnitude(c)) ELSE <<0, 0, 0>>
         IN  <<u[1] + rest[1], u[2] + rest[2], u[3] + rest[3]>>

\* C14: calculate_normals returns one normal per vertex; the normal of a
\* vertex is the normalized sum of the unit normals of the triangles at it
\* that are not degenerate, and [0,0,1] when that sum is zero (no triangle,
\* degenerate triangles only, or unit normals that cancel); the triangle
\* (0,0,0),(1,0,0),(0,1,0) alone gives (0,0,1) at its three vertices.
C14_VertexNormals ==
    an_pc = "normals" =>
        /\ Len(an_normals) = Len(an_vertices)
        /\ \A v \in 1..Len(an_vertices) :
              LET acc == UnitNormalsAt(an_vertices, an_triangles, v - 1)
              IN  an_normals[v] = IF acc = <<0, 0, 0>> THEN UnitZ
                                  ELSE Scaled(acc, Magnitude(acc))
        /\ (an_vertices = <<<<0, 0, 0>>, <<1, 0, 0>>, <<0, 1, 0>>>>
              /\ an_triangles = <<<<0, 1, 2>>>>)
             => an_normals = <<UnitZ, UnitZ, UnitZ>>

\* normals were made for four vertices: vertex 0 lies on two triangles of
\* opposite winding and different area, whose unit normals cancel; vertex 1
\* lies on the first alone, vertex 2 on the second alone
C14_Witness ==
    /\ an_pc = "normals"
    /\ an_vertices = <<<<0, 0, 0>>, <<1, 0, 0>>, <<2, 0, 0>>, <<0, 1, 0>>>>
    /\ an_triangles = <<<<0, 1, 3>>, <<0, 3, 2>>>>
    /\ an_normals = <<UnitZ, UnitZ, <<0, 0, -1>>, UnitZ>>

----------------------------------------------------------------------------
(* Properties of create_bounding_box_stl, under SpecShell *)

ShellEnded == sh_pc \in {"done", "raised"}

Extent(k) == bbox.max[k] - bbox.min[k]

\* the inset box keeps a positive size on every axis
Feasible == \A k \in 1..3 : 2 * wall_thickness < Extent(k)

\* the box spanning lo..hi, in half units
Spanning(lo, hi) ==
    [kind |-> "box",
     lo |-> <<2 * lo[1], 2 * lo[2], 2 * lo[3]>>,
     hi |-> <<2 * hi[1], 2 * hi[2], 2 * hi[3]>>]

Inset(p, w) == <<p[1] + w, p[2] + w, p[3] + w>>

\* C8: when the walls leave no room on some axis, the builder ends without an
\* error and gives the outer box alone, with no subtraction.
C8_InfeasibleGivesOuterBox ==
    (ShellEnded /\ ~bbox.void /\ ~Feasible) =>
        /\ sh_pc = "done"
        /\ sh_error = ""
        /\ hollow_box = Spanning(bbox.min, bbox.max)

\* Whatever the kernel does with an inner size that is not positive (it
\* raises, or it builds something that is then subtracted), the builder never
\* ends with the outer box alone.
InfeasibleNeverGivesOuterBox ==
    (ShellEnded /\ ~bbox.void /\ ~Feasible) =>
        \/ sh_pc = "raised"
        \/ hollow_box.kind = "cut"

\* C9: when the walls leave room on all three axes, the shell is the outer
\* box min..max minus the inner box (min + wall)..(max - wall).
C9_FeasibleShellIsDifference ==
    (sh_pc = "done" /\ ~bbox.void /\ Feasible) =>
        hollow_box = Cut(Spanning(bbox.min, bbox.max),
                         Spanning(Inset(bbox.min, wall_thickness),
                                  Inset(bbox.max, -wall_thickness)))

\* a 10 x 10 x 10 box with walls of 2 has ended with a 6 x 6 x 6 hole around
\* the same center
C9_Witness ==
    /\ sh_pc = "done"
    /\ ~bbox.void
    /\ \A k \in 1..3 : Extent(k) = 10
    /\ wall_thickness = 2
    /\ exported = hollow_box
    /\ hollow_box.kind = "cut"
    /\ \A k \in 1..3 :
          /\ hollow_box.inner.hi[k] - hollow_box.inner.lo[k] = 2 * 6
          /\ hollow_box.inner.hi[k] + hollow_box.inner.lo[k]
               = hollow_box.outer.hi[k] + hollow_box.outer.lo[k]

\* C10: for a void bounding box the builder fails with the error
\* "void bounding box" and has made no box, no subtraction and no file.
C10_VoidBoxRejected ==
    bbox.void =>
        /\ outer_box = <<>> /\ inner_box = <<>> /\ hollow_box = <<>> /\ exported = <<>>
        /\ sh_pc # "done"
        /\ ShellEnded => sh_error = "GeometryError: void bounding box"

----------------------------------------------------------------------------
(* Properties of the /process-step handler, under SpecServer *)

\* process_step_file has come back to the request
Processed(r) == rq_pc[r] \in {"cleanup", "done"} /\ rq_path[r] # NoPath

\* the file cannot be read (there is none at the path, or the reader gives
\* it up), its format is unsupported, or its tessellation does not complete
WholeFailure(r) ==
    \/ rq_path[r].filename.ext \notin {".step", ".stp", ".iges", ".igs"}
    \/ ~rq_read[r].found
    \/ rq_read[r].content \in {"unreadable", "unmeshable"}

\* C15: when the file cannot be read, its format is unsupported or the
\* tessellation does not complete, process_step_file gives the request no
\* mesh and the request is answered with the error (status 500), not with
\* a success payload.
C15_WholeFailurePropagates ==
    \A r \in Requests :
        (Processed(r) /\ WholeFailure(r)) =>
            /\ rq_meshes[r] = <<>>
            /\ rq_response[r].status = 500
            /\ ~rq_response[r].success
            /\ rq_response[r].meshes = <<>>
            /\ rq_response[r].details \in {"Failed to read STEP file", "Failed to read IGES file",
                                           "Unsupported file format", "Meshing failed"}

\* the requests have ended, one on a file whose tessellation did not
\* complete, and one on an upload named ".step", whose saved name has no
\* supported extension
C15_Witness ==
    /\ \A r \in Requests : rq_pc[r] = "done"
    /\ rq_read[1].content = "unmeshable"
    /\ rq_response[1].details = "Meshing failed"
    /\ rq_upload[2].filename = Name("", ".step")
    /\ rq_response[2].details = "Unsupported file format"

\* the request has a temp path and has not ended
InFlight(r) == rq_pc[r] \in {"save", "process", "cleanup"}

\* C20: no two requests in flight have the same temp path; a request that
\* has saved its upload and not yet cleaned up finds its own upload at its
\* path; what process_step_file read for a request is the upload of that
\* request; and once a request has ended no file of its own is left.
C20_TempFilesApart ==
    /\ \A r1, r2 \in Requests :
          (r1 # r2 /\ InFlight(r1) /\ InFlight(r2)) => rq_path[r1] # rq_path[r2]
    /\ \A r \in Requests :
          rq_pc[r] \in {"process", "cleanup"} =>
              /\ Exists(upload_folder, rq_path[r])
              /\ DataAt(upload_folder, rq_path[r]).owner = r
    /\ \A r \in Requests :
          Processed(r) => (rq_read[r].found /\ rq_read[r].owner = r)
    /\ \A r \in Requests :
          rq_pc[r] = "done" => \A e \in upload_folder : e.data.owner # r

\* the requests got different temp paths
PathsApart ==
    \A r1, r2 \in Requests :
        (r1 # r2 /\ rq_path[r1] # NoPath /\ rq_path[r2] # NoPath) => rq_path[r1] # rq_path[r2]

\* What is right of C20: requests whose temp paths differ keep apart.
TempFilesApartWhenPathsDiffer == PathsApart => C20_TempFilesApart

----------------------------------------------------------------------------
(* Properties of the export, under SpecExport *)

C18_ShellWithoutFull ==
    /\ ex_pc = "done"
    /\ sh_pc = "done"
    /\ ex_full = "failed"
    /\ ex_report = [full |-> FALSE, shell |-> TRUE]

----------------------------------------------------------------------------
(* Properties of the STL store, under SpecStore *)

StoreWasRejected == st_response.status = 400

\* C21: after a rejected /api/store-stl request, /api/project/<projectId>
\* answers for every project, and /api/list-projects answers, as they did
\* on the storage before the request.
C21_RejectedStoreLeavesStorage ==
    StoreWasRejected =>
        /\ \A p \in ProjectIds :
               get_project_status(stl_storage, p) = get_project_status(st_before, p)
        /\ list_projects(stl_storage) = list_projects(st_before)

\* a request rejected before line 402 (no JSON, or a missing field) leaves
\* the storage as it was
RejectedForMissingFieldLeavesStorage ==
    (StoreWasRejected /\ st_response.error # "Failed to decode base64 STL data")
        => stl_storage = st_before

\* a request rejected for its base64 leaves the files as they were, and
\* the directories it found
RejectedForBase64KeepsFiles ==
    StoreWasRejected =>
        /\ stl_storage.files = st_before.files
        /\ \A p \in DOMAIN st_before.dirs :
               p \in DOMAIN stl_storage.dirs /\ stl_storage.dirs[p] = st_before.dirs[p]

====
